---------------------------- MODULE Spec2Model ----------------------------
(***************************************************************************)
(* Model of libmccdaq (pyodine/drivers/mcc_daq): waveform synthesis,       *)
(* output-scan priming, input-scan readback and the FetchScan              *)
(* orchestration, as a state machine whose state is the result of the      *)
(* latest library call.                                                    *)
(*                                                                         *)
(* Voltages are rationals k / VoltRes (k an integer); half-amplitudes are  *)
(* kept in units of 1 / (2 * VoltRes) volt so that amplitude / 2 is exact. *)
(* For such dyadic inputs the double arithmetic of the source is exact up  *)
(* to the final truncation, which the integer divisions below reproduce.   *)
(***************************************************************************)
EXTENDS Integers, Sequences, FiniteSets, TLC

VARIABLES dev, call, args, status, cmds, samples, io

vars == <<dev, call, args, status, cmds, samples, io>>

----------------------------------------------------------------------------
(* Program constants *)

LIBMCCDAQ_BULK_TRANSFER_SIZE == 2560

kMaxAmplitude == 65535

kPrefix == 100

kFullScale == 10

\* A C uint is 32 bits wide; TLC integers are too narrow for 2^32, so a uint
\* is kept as its two 16-bit halves <<high, low>>.
Two16 == 2 ^ 16

\* the uint that the integer x, -2^31 < x < 2^31, converts to
Uint(x) == <<(x \div Two16) % Two16, x % Two16>>

kSuccess == "kSuccess"
kConnectionError == "kConnectionError"
kValueError == "kValueError"
kNotImplementedError == "kNotImplementedError"
kOSError == "kOSError"

kDescent == "kDescent"
kAscent == "kAscent"
kDip == "kDip"

SignalType == {kDescent, kAscent, kDip}

(* Outcome of a call that hit undefined behaviour and never returned. *)
Undefined == "Undefined"

(* Content of a buffer element that the callee has not written. *)
Unwritten == 0 - 1

\* a caller's buffer of n elements before the call
Buffer(n) == [i \in 1 .. n |-> Unwritten]

----------------------------------------------------------------------------
(* Bounds of the enumerated inputs *)

\* voltages are enumerated on a grid of 2^VoltBits steps per volt
VoltBits == 1

\* directly enumerated buffer lengths are 0 .. MaxSamples
MaxSamples == 5

\* FetchScan sample counts are enumerated from kPrefix - 1 to kPrefix + 1 + MaxSlope
MaxSlope == 3

\* channel lists have up to MaxChannels entries
MaxChannels == 3
\* voltages of the codec's own specification are multiples of
\* 1 / StepParts of a quantization step, step = 20 / kMaxAmplitude volt
StepParts == 4

VoltRes == 2 ^ VoltBits

----------------------------------------------------------------------------
(* VoltageCodec *)

\* h is a voltage in units of 1 / (2 * VoltRes) volt, within full scale.
\* (uint16_t) ((kMaxAmplitude * (volts + 10.) / 20.) + .5)
VoltsToCounts(h) ==
    (kMaxAmplitude * (h + kFullScale * 2 * VoltRes) + kFullScale * 2 * VoltRes)
        \div (2 * kFullScale * 2 * VoltRes)

\* The voltages -10 V and +10 V on the grid of 1 / StepParts step above -10 V.
MinVolts == 0
MaxVolts == kMaxAmplitude * StepParts

VoltsToCountsAt_Inverted(q) ==
    {(2 * (MaxVolts - q) + StepParts) \div (2 * StepParts)}

VoltsToCountsAt_Truncated(q) == {q \div StepParts}

\* Whether the voltage -10 V + q / StepParts steps lies midway between two
\* codes without being a double itself: the midpoint after code c is
\* -10 + (2 * c + 1) * 2 / 13107 volt, a double only when 13107 divides
\* 2 * c + 1 (at -8, -4, 0, 4 and 8 V).
VoltsMidway(q) ==
    /\ (2 * q + StepParts) % (2 * StepParts) = 0
    /\ ((2 * q) \div StepParts) % (kMaxAmplitude \div 5) # 0

\* The codes VoltsToCounts can give for the voltage -10 V + q / StepParts
\* steps, q in MinVolts .. MaxVolts: kMaxAmplitude * (volts + 10.) / 20. is
\* q / StepParts, and the cast of that plus .5 cuts the fraction off.  A
\* midway voltage that is not a double stands for the doubles next to it,
\* which get the code above or the code below.
VoltsToCountsAt(q) ==
    LET code == (2 * q + StepParts) \div (2 * StepParts)
    IN  IF VoltsMidway(q) THEN {code - 1, code} ELSE {code}

\* The read path's conversion of a code to volts, on the same grid:
\* (double) code / kMaxAmplitude * 20. - 10. is code steps above -10 V.
CountsToVolts(code) == code * StepParts

----------------------------------------------------------------------------
(* WaveformGenerator *)

\* Results of (uint16_t) applied to NaN: the conversion is undefined.
NaNCastCodes == {0, 32768, kMaxAmplitude}

\* a slope that divides by the number of samples instead of the last index
SlopeSample_DividedByCount(start, stop, i, n) ==
    (2 * (start * n + (stop - start) * i) + n) \div (2 * n)

\* Sample i (0-based) of a slope of n >= 2 samples:
\* (uint16_t) (start + (stop - start) * (double) i / (n - 1) + .5)
SlopeSample(start, stop, i, n) ==
    (2 * (start * (n - 1) + (stop - start) * i) + (n - 1)) \div (2 * (n - 1))

\* The values IntegerSlope stores at samples[0 .. n-1], over all outcomes of
\* the undefined conversion it performs when n = 1 (0. / 0 is NaN).
IntegerSlope(start, stop, n) ==
    IF n = 1
    THEN {<<u>> : u \in NaNCastCodes}
    ELSE {[i \in 1 .. n |-> SlopeSample(start, stop, i - 1, n)]}

Abs(x) == IF x < 0 THEN 0 - x ELSE x

\* a range check that lets min > max through
TriangleInvalid_Unordered(min, max) ==
    \/ min < -kFullScale * VoltRes
    \/ min > kFullScale * VoltRes
    \/ max < -kFullScale * VoltRes
    \/ max > kFullScale * VoltRes

\* min < -10. || min > 10. || max < -10. || max > 10. || min > max
\* (min and max in units of 1 / VoltRes volt)
TriangleInvalid(min, max) ==
    \/ min < -kFullScale * VoltRes
    \/ min > kFullScale * VoltRes
    \/ max < -kFullScale * VoltRes
    \/ max > kFullScale * VoltRes
    \/ min > max

\* kMaxAmplitude * (rel_ampl + offset) + .5 of sample i (0-based) is
\* TriangleNum / TriangleDen, for length >= 2 and a valid range:
\* rel_ampl = fabs(i / (length - 1) - .5) * 2 * (max - min) / 20.
\* offset = (min + 10) / 20.
TriangleDen(length) == 2 * 2 * kFullScale * VoltRes * (length - 1)

TriangleNum(i, length, min, max) ==
    2 * kMaxAmplitude * (Abs(2 * i - (length - 1)) * (max - min)
                         + (min + kFullScale * VoltRes) * (length - 1))
        + 2 * kFullScale * VoltRes * (length - 1)

\* Whether the doubles span / 20., (min + 10) / 20. and i / (length - 1) that
\* sample i is computed from are the exact quotients (the last one does not
\* matter when the span is 0).
TriangleExact(i, length, min, max) ==
    /\ (max - min) % 5 = 0
    /\ (min + kFullScale * VoltRes) % 5 = 0
    /\ max = min \/ (i * Two16) % (length - 1) = 0

\* The samples whose value before the cast is a whole number in exact
\* arithmetic, but is computed from rounded double quotients: the double is
\* the whole number or just below it, and the cast gives that code or the
\* one below.
TriangleTies(length, min, max) ==
    {i \in 0 .. length - 1 :
        /\ TriangleNum(i, length, min, max) % TriangleDen(length) = 0
        /\ ~TriangleExact(i, length, min, max)}

\* The ways the samples of TriangleTies can come out low in one call: the
\* samples 0 and length - 1 are computed from the same doubles (rel_ampl is
\* .5 * 2 * rel_span), as are all samples when max = min (rel_ampl is 0).
TriangleLow(length, min, max) ==
    {low \in SUBSET TriangleTies(length, min, max) :
        /\ 0 \in low <=> length - 1 \in low
        /\ max = min => low \in {{}, TriangleTies(length, min, max)}}

\* amplitudes[i] = (uint16_t) (kMaxAmplitude * (rel_ampl + offset) + .5)
TriangleSample(i, length, min, max, low) ==
    TriangleNum(i, length, min, max) \div TriangleDen(length)
        - (IF i \in low THEN 1 ELSE 0)

\* The sequences GenerateTriangleSignal can store in amplitudes[0 .. length-1].
\* With length = 1 every sample is the cast of NaN (0. / 0), an undefined
\* conversion.
GenerateTriangleSignal(length, min, max) ==
    LET lo == IF TriangleInvalid(min, max) THEN -kFullScale * VoltRes ELSE min
        hi == IF TriangleInvalid(min, max) THEN kFullScale * VoltRes ELSE max
    IN  IF length = 0 THEN {<<>>}
        ELSE IF length = 1 THEN {<<u>> : u \in NaNCastCodes}
        ELSE {[i \in 1 .. length |-> TriangleSample(i - 1, length, lo, hi, low)] :
                low \in TriangleLow(length, lo, hi)}

\* buf after the callee stored seq at buf[pos .. pos + Len(seq) - 1] (0-based pos)
StoreAt(buf, pos, seq) ==
    [i \in 1 .. Len(buf) |->
        IF i - 1 >= pos /\ i - 1 < pos + Len(seq) THEN seq[i - pos]
        ELSE buf[i]]

\* for (uint i = 0; i < n_prefix; i++) samples[i] = zero;
FillPrefix(buf, n_prefix, zero) ==
    [i \in 1 .. Len(buf) |-> IF i - 1 < n_prefix THEN zero ELSE buf[i]]

\* GenerateSignal without the final return to the rest level
SetLast_Skipped(buf, n_samples, zero) == buf

\* samples[n_samples - 1] = zero;
SetLast(buf, n_samples, zero) ==
    [i \in 1 .. Len(buf) |-> IF i = n_samples THEN zero ELSE buf[i]]

\* uint n_signal_samples = n_samples - n_prefix - 1;
SignalSamples(n_samples, n_prefix) == Uint(n_samples - n_prefix - 1)

\* Whether a slope of the uint count n stored from index n_prefix on stays
\* within a buffer of n_samples elements.
SlopeFits(n_samples, n_prefix, n) == n[1] = 0 /\ n_prefix + n[2] <= n_samples

GenerateSignalInvalid(n_samples, n_prefix, amplitude, offset) ==
    \/ n_samples > LIBMCCDAQ_BULK_TRANSFER_SIZE
    \/ n_prefix > n_samples
    \/ amplitude < 0
    \/ amplitude > 2 * kFullScale * VoltRes
    \/ offset < -kFullScale * VoltRes
    \/ offset > kFullScale * VoltRes
    \/ 2 * offset + amplitude > 2 * kFullScale * VoltRes
    \/ 2 * offset - amplitude < -2 * kFullScale * VoltRes

\* IntegerSlope was not called
NoSlope == <<>>

\* The outcomes of GenerateSignal on a caller's buffer buf of n_samples
\* elements: a set of [status, samples, oob, slope_n], where oob tells whether
\* an element outside buf was written and slope_n is the uint sample count
\* that IntegerSlope was called with.  amplitude and offset are in units of
\* 1 / VoltRes volt.
GenerateSignal(signal, n_samples, n_prefix, amplitude, offset, buf) ==
    IF GenerateSignalInvalid(n_samples, n_prefix, amplitude, offset)
    THEN {[status |-> kValueError, samples |-> buf, oob |-> FALSE,
           slope_n |-> NoSlope]}
    ELSE
      LET n_signal_samples == SignalSamples(n_samples, n_prefix)
          zero == VoltsToCounts(2 * offset)
          min  == VoltsToCounts(2 * offset - amplitude)
          max  == VoltsToCounts(2 * offset + amplitude)
          padded == FillPrefix(buf, n_prefix, zero)
      IN  IF signal = kDip
          THEN {[status |-> kNotImplementedError, samples |-> padded,
                 oob |-> FALSE, slope_n |-> NoSlope]}
          ELSE IF ~SlopeFits(n_samples, n_prefix, n_signal_samples)
          THEN \* IntegerSlope runs past the end of the buffer: the writes are
               \* undefined; the call faults, or returns with the buffer as
               \* the in-bounds stores left it.
               {[status |-> Undefined, samples |-> padded, oob |-> TRUE,
                 slope_n |-> n_signal_samples],
                [status |-> kSuccess, samples |-> SetLast(padded, n_samples, zero),
                 oob |-> TRUE, slope_n |-> n_signal_samples]}
          ELSE LET start == IF signal = kDescent THEN max ELSE min
                   stop  == IF signal = kDescent THEN min ELSE max
               IN  {[status |-> kSuccess,
                     samples |-> SetLast(StoreAt(padded, n_prefix, slope),
                                         n_samples, zero),
                     oob |-> FALSE, slope_n |-> n_signal_samples] :
                       slope \in IntegerSlope(start, stop, n_signal_samples[2])}

----------------------------------------------------------------------------
(* Device commands, as the calls made on the device-protocol and transport *)
(* libraries; cmds is the sequence of them issued by the latest call.      *)

NoRate == <<0, 0>>

Cmd(op) == [op |-> op, count |-> 0, rate |-> NoRate, list |-> <<>>, nbytes |-> 0]

AOutScanStop == Cmd("AOutScanStop")

AOutScanClearFIFO == Cmd("AOutScanClearFIFO")

BulkTransfer(nbytes) == [Cmd("BulkTransfer") EXCEPT !.nbytes = nbytes]

AOutScanStart(count, rate) ==
    [Cmd("AOutScanStart") EXCEPT !.count = count, !.rate = rate]

AInScanStop == Cmd("AInScanStop")

AInScanClearFIFO == Cmd("AInScanClearFIFO")

AInConfig(list) == [Cmd("AInConfig") EXCEPT !.list = list]

AInScanStart(count, rate) ==
    [Cmd("AInScanStart") EXCEPT !.count = count, !.rate = rate]

AInScanRead(n_samples, n_channels) ==
    [Cmd("AInScanRead") EXCEPT !.count = n_samples, !.nbytes = 2 * n_channels * n_samples]

OutputOps == {"AOutScanStop", "AOutScanClearFIFO", "BulkTransfer", "AOutScanStart"}

InputOps == {"AInScanStop", "AInScanClearFIFO", "AInConfig", "AInScanStart",
             "AInScanRead"}

\* A sample rate is the quotient <<numerator, denominator>> of the division
\* that produced it; a zero denominator is the double +0.
Quotient(num, den) == <<num, den>>

\* sample_rate > 0.   (x / +0. is +inf for x > 0 and NaN for x = 0)
RatePositive(rate) ==
    \/ rate[1] > 0 /\ rate[2] >= 0
    \/ rate[1] < 0 /\ rate[2] < 0

LIBUSB_ERROR_TIMEOUT == 0 - 7

Max(a, b) == IF a >= b THEN a ELSE b

\* <<bytes transferred, status>> results of a bulk transfer of len bytes
BulkOutcomes(len) ==
    {<<len, 0>>, <<Max(len - 2, 0), 0>>, <<0, LIBUSB_ERROR_TIMEOUT>>,
     <<len, LIBUSB_ERROR_TIMEOUT>>}

\* return values of an input scan read of len bytes
ReadOutcomes(len) == {len, Max(len - 2, 0), LIBUSB_ERROR_TIMEOUT}

NoIo ==
    [gen |-> "NotCalled", emit |-> "NotCalled", acquire |-> "NotCalled",
     bulk_len |-> 0, transferred |-> 0, bulk_ret |-> 0,
     read_len |-> 0, read_ret |-> 0, slope_n |-> NoSlope, oob |-> FALSE]

----------------------------------------------------------------------------
(* OutputScanController *)

\* 2 * n_samples > LIBMCCDAQ_BULK_TRANSFER_SIZE for the uint u, the product
\* taken in uint (modulo 2^32)
OutputTooLargeUint(u) ==
    LET low == 2 * u[2]
        high == (2 * u[1] + low \div Two16) % Two16
    IN  high # 0 \/ low % Two16 > LIBMCCDAQ_BULK_TRANSFER_SIZE

\* 2 * n_samples > LIBMCCDAQ_BULK_TRANSFER_SIZE, the product taken in uint
OutputTooLarge(n_samples) == OutputTooLargeUint(Uint(n_samples))

\* a transfer check that looks at the transport status only
BulkTransferFailed_StatusOnly(n_samples, transferred, ret) == ret # 0

\* 2 * (int) n_samples != n_transferred_bytes || ret != 0
BulkTransferFailed(n_samples, transferred, ret) ==
    2 * n_samples # transferred \/ ret # 0

\* priming without emptying the FIFO first
OutputReset_NoClear == <<AOutScanStop>>

\* usbAOutScanStop_USB1608GX_2AO(dev); usbAOutScanClearFIFO_USB1608GX_2AO(dev);
OutputReset == <<AOutScanStop, AOutScanClearFIFO>>

\* usbAOutScanStart_USB1608GX_2AO(dev, n_samples, 0, sample_rate, AO_CHAN0)
OutputStart(n_samples, sample_rate) == AOutScanStart(n_samples, sample_rate)

\* OutputSignal checking the sample rate only after resetting the engine
OutputSignal_LateRateCheck(n_samples, sample_rate) ==
    IF OutputTooLarge(n_samples)
    THEN {[status |-> kValueError, cmds |-> <<>>,
           io |-> [NoIo EXCEPT !.emit = kValueError]]}
    ELSE IF ~RatePositive(sample_rate)
    THEN {[status |-> kValueError, cmds |-> OutputReset,
           io |-> [NoIo EXCEPT !.emit = kValueError]]}
    ELSE {LET primed == OutputReset \o <<BulkTransfer(2 * n_samples)>>
              xio == [NoIo EXCEPT !.bulk_len = 2 * n_samples,
                                  !.transferred = x[1], !.bulk_ret = x[2]]
          IN  IF BulkTransferFailed(n_samples, x[1], x[2])
              THEN [status |-> kConnectionError, cmds |-> primed,
                    io |-> [xio EXCEPT !.emit = kConnectionError]]
              ELSE [status |-> kSuccess,
                    cmds |-> primed \o <<OutputStart(n_samples, sample_rate)>>,
                    io |-> [xio EXCEPT !.emit = kSuccess]] :
            x \in BulkOutcomes(2 * n_samples)}

\* The outcomes [status, cmds, io] of OutputSignal, over the results of the
\* bulk transfer.
OutputSignal(n_samples, sample_rate) ==
    IF OutputTooLarge(n_samples) \/ ~RatePositive(sample_rate)
    THEN {[status |-> kValueError, cmds |-> <<>>,
           io |-> [NoIo EXCEPT !.emit = kValueError]]}
    ELSE {LET primed == OutputReset \o <<BulkTransfer(2 * n_samples)>>
              xio == [NoIo EXCEPT !.bulk_len = 2 * n_samples,
                                  !.transferred = x[1], !.bulk_ret = x[2]]
          IN  IF BulkTransferFailed(n_samples, x[1], x[2])
              THEN [status |-> kConnectionError, cmds |-> primed,
                    io |-> [xio EXCEPT !.emit = kConnectionError]]
              ELSE [status |-> kSuccess,
                    cmds |-> primed \o <<OutputStart(n_samples, sample_rate)>>,
                    io |-> [xio EXCEPT !.emit = kSuccess]] :
            x \in BulkOutcomes(2 * n_samples)}

\* Whether the uint u is below 2^31, so that (int) u is u.
FitsInt(u) == u[1] < 2 ^ 15

\* OutputSignal on a sample count given as the uint u.  From 2^31 on, (int) u
\* is negative and 2 * (int) n_samples overflows int whenever the uint check
\* lets u pass: the call faults, or goes on with the wrapped length.
OutputSignalUint(u, sample_rate) ==
    IF FitsInt(u)
    THEN OutputSignal(u[1] * Two16 + u[2], sample_rate)
    ELSE IF OutputTooLargeUint(u) \/ ~RatePositive(sample_rate)
    THEN {[status |-> kValueError, cmds |-> <<>>,
           io |-> [NoIo EXCEPT !.emit = kValueError]]}
    ELSE LET len == (2 * u[2]) % Two16
             primed == OutputReset \o <<BulkTransfer(len)>>
         IN  {[status |-> Undefined, cmds |-> OutputReset,
               io |-> [NoIo EXCEPT !.emit = Undefined]]}
             \cup
             {LET xio == [NoIo EXCEPT !.bulk_len = len, !.transferred = x[1],
                                      !.bulk_ret = x[2]]
              IN  IF len # x[1] \/ x[2] # 0
                  THEN [status |-> kConnectionError, cmds |-> primed,
                        io |-> [xio EXCEPT !.emit = kConnectionError]]
                  ELSE [status |-> kSuccess,
                        cmds |-> primed \o <<AOutScanStart(u, sample_rate)>>,
                        io |-> [xio EXCEPT !.emit = kSuccess]] :
                x \in BulkOutcomes(len)}

----------------------------------------------------------------------------
(* InputScanController *)

BP_10V == "BP_10V"

\* list[i].channel = channels[i]; list[i].mode = SINGLE_ENDED;
\* list[i].range = gains[i]; list[n_channels-1].mode |= LAST_CHANNEL;
ScanList(channels, n_channels, gains) ==
    [i \in 1 .. n_channels |->
        [channel |-> channels[i],
         mode |-> IF i = n_channels THEN {"SINGLE_ENDED", "LAST_CHANNEL"}
                  ELSE {"SINGLE_ENDED"},
         range |-> gains[i]]]

InputReset == <<AInScanStop, AInScanClearFIFO>>

\* an input scan started for all readings instead of the samples per channel
InputStart_TotalReadings(n_samples, frequency) ==
    AInScanStart(n_samples + n_samples, frequency)

\* usbAInScanStart_USB1608G(dev, n_samples, 0, frequency, 0x0)
InputStart(n_samples, frequency) == AInScanStart(n_samples, frequency)

\* the status SampleChannels returns after a read of `expected` bytes that
\* returned ret
SampleStatus(expected, ret) == kSuccess

\* The outcomes [status, cmds, io] of SampleChannels, over the results of the
\* read.  With n_channels = 0 the store to list[n_channels-1] is outside the
\* (empty) list: the call faults there, or goes on.
SampleChannels(channels, n_channels, n_samples, frequency, gains) ==
    LET expected == 2 * n_channels * n_samples
        run == {[status |-> SampleStatus(expected, ret),
                 cmds |-> InputReset \o
                          <<AInConfig(ScanList(channels, n_channels, gains)),
                            InputStart(n_samples, frequency),
                            AInScanRead(n_samples, n_channels)>>,
                 io |-> [NoIo EXCEPT !.acquire = SampleStatus(expected, ret),
                                     !.read_len = expected, !.read_ret = ret]] :
                  ret \in ReadOutcomes(expected)}
    IN  IF n_channels = 0
        THEN run \cup {[status |-> Undefined, cmds |-> InputReset,
                        io |-> [NoIo EXCEPT !.acquire = Undefined]]}
        ELSE run

\* rcv_data after a read that returned ret, the device delivering the codes
\* `data`: calloc zeroes the buffer, the read fills the bytes it transferred.
Received(data, ret) ==
    [i \in 1 .. Len(data) |-> IF 2 * i <= ret THEN data[i] ELSE 0]

\* a reading taken for the device code itself
Reading_Raw(code) == Quotient(code, 1)

\* (double) rcv_data[i] / (kMaxAmplitude) * 20. - 10., in volts, as a quotient
Reading(code) ==
    Quotient(2 * kFullScale * code - kFullScale * kMaxAmplitude, kMaxAmplitude)

\* the results SampleChannels hands back for the received codes
Results(rcv_data) == [i \in 1 .. Len(rcv_data) |-> Reading(rcv_data[i])]

SampleChannelsAt10V(channels, n_channels, n_samples, freq) ==
    SampleChannels(channels, n_channels, n_samples, freq,
                   [i \in 1 .. n_channels |-> BP_10V])

----------------------------------------------------------------------------
(* ScanOrchestrator *)

\* FetchScan going on to the input scan whatever OutputSignal returned
EmitFailed_Ignored(ret) == FALSE

\* if (ret != 0) return ret;   after OutputSignal
EmitFailed(ret) == ret # kSuccess

\* The outcomes [status, cmds, samples, io] of FetchScan.
FetchScan(offset, amplitude, duration, n_samples, channels, n_chan, type) ==
    IF n_samples > LIBMCCDAQ_BULK_TRANSFER_SIZE \div 2
    THEN {[status |-> kValueError, cmds |-> <<>>, samples |-> <<>>, io |-> NoIo]}
    ELSE
      LET sample_rate == Quotient(n_samples, duration)
          Acquire(g, e) ==
              {[status |-> a.status, cmds |-> e.cmds \o a.cmds,
                samples |-> g.samples,
                io |-> [e.io EXCEPT !.gen = g.status, !.slope_n = g.slope_n,
                                    !.oob = g.oob, !.acquire = a.io.acquire,
                                    !.read_len = a.io.read_len,
                                    !.read_ret = a.io.read_ret]] :
                 a \in SampleChannelsAt10V(channels, n_chan, n_samples, sample_rate)}
          Emit(g) ==
              UNION {IF EmitFailed(e.status)
                     THEN {[status |-> e.status, cmds |-> e.cmds,
                            samples |-> g.samples,
                            io |-> [e.io EXCEPT !.gen = g.status,
                                                !.slope_n = g.slope_n,
                                                !.oob = g.oob]]}
                     ELSE Acquire(g, e) :
                       e \in OutputSignal(n_samples, sample_rate)}
      IN  UNION {IF g.status # kSuccess
                 THEN {[status |-> g.status, cmds |-> <<>>, samples |-> g.samples,
                        io |-> [NoIo EXCEPT !.gen = g.status,
                                            !.slope_n = g.slope_n,
                                            !.oob = g.oob]]}
                 ELSE Emit(g) :
                   g \in GenerateSignal(type, n_samples, kPrefix, amplitude, offset,
                                        Buffer(n_samples))}

\* The outcomes "init" (libusb_init failed), "found", "missing" of opening.
OpenConnection(outcome) ==
    CASE outcome = "init" -> [status |-> kOSError, dev |-> dev]
      [] outcome = "found" -> [status |-> kSuccess, dev |-> "open"]
      [] OTHER -> [status |-> kConnectionError, dev |-> "NULL"]

----------------------------------------------------------------------------
(* Inputs *)

OffsetInputs ==
    {-kFullScale * VoltRes - 1, -kFullScale * VoltRes, -3 * VoltRes + 1, 0,
     9 * VoltRes, kFullScale * VoltRes, kFullScale * VoltRes + 1}

AmplitudeInputs ==
    {-1, 0, 1, 4 * VoltRes, kFullScale * VoltRes,
     2 * kFullScale * VoltRes, 2 * kFullScale * VoltRes + 1}

NoArgs ==
    [n_samples |-> 0, n_prefix |-> 0, amplitude |-> 0, offset |-> 0,
     duration |-> 0, type |-> "none", channels |-> <<>>]

\* Arguments of direct GenerateSignal calls
SignalRequests ==
    {[NoArgs EXCEPT !.type = t, !.n_samples = n, !.n_prefix = p,
                    !.amplitude = a, !.offset = o] :
       t \in SignalType,
       n \in 0 .. MaxSamples, p \in 0 .. MaxSamples + 1,
       a \in AmplitudeInputs, o \in OffsetInputs}
    \cup
    {[NoArgs EXCEPT !.type = t, !.n_samples = n, !.n_prefix = kPrefix,
                    !.amplitude = a, !.offset = o] :
       t \in SignalType,
       n \in {kPrefix + 2 + MaxSamples, LIBMCCDAQ_BULK_TRANSFER_SIZE,
              LIBMCCDAQ_BULK_TRANSFER_SIZE + 1, 3000},
       a \in {4 * VoltRes, kFullScale * VoltRes}, o \in {0, 9 * VoltRes}}

ChannelLists == {[i \in 1 .. k |-> k - i] : k \in 0 .. MaxChannels}

ScanSamples ==
    {0} \cup (kPrefix - 1 .. kPrefix + 1 + MaxSlope)
      \cup {LIBMCCDAQ_BULK_TRANSFER_SIZE \div 2, LIBMCCDAQ_BULK_TRANSFER_SIZE \div 2 + 1}

\* Scan requests: the arguments of FetchScan, which the direct calls of
\* OutputSignal and SampleChannelsAt10V share.
ScanRequests ==
    {[NoArgs EXCEPT !.type = t, !.n_samples = n, !.amplitude = a, !.offset = o,
                    !.duration = d, !.channels = c] :
       t \in SignalType, n \in ScanSamples,
       a \in {0, 4 * VoltRes}, o \in {0, 9 * VoltRes},
       d \in {-1, 0, 2}, c \in ChannelLists}

\* sample rates of the direct calls for a request
RateInputs(r) == {Quotient(r.n_samples, r.duration), Quotient(1000, 1)}

----------------------------------------------------------------------------
(* State machine of the scan operations: a scan request is fixed, and the  *)
(* library is called on it any number of times in any order.               *)

Init ==
    /\ dev = "NULL"
    /\ call = "none"
    /\ args \in ScanRequests
    /\ status = kSuccess
    /\ cmds = <<>>
    /\ samples = <<>>
    /\ io = NoIo

CallOpenConnection ==
    \E outcome \in {"init", "found", "missing"} :
        /\ call' = "OpenConnection"
        /\ status' = OpenConnection(outcome).status
        /\ dev' = OpenConnection(outcome).dev
        /\ cmds' = <<>>
        /\ samples' = <<>>
        /\ io' = NoIo
        /\ UNCHANGED args

CallOutputSignal ==
    /\ dev = "open"
    /\ \E rate \in RateInputs(args) :
         \E r \in OutputSignal(args.n_samples, rate) :
            /\ call' = "OutputSignal"
            /\ status' = r.status
            /\ cmds' = r.cmds
            /\ io' = r.io
            /\ samples' = <<>>
            /\ UNCHANGED <<dev, args>>

CallSampleChannelsAt10V ==
    /\ dev = "open"
    /\ \E rate \in RateInputs(args) :
         \E r \in SampleChannelsAt10V(args.channels, Len(args.channels),
                                      args.n_samples, rate) :
            /\ call' = "SampleChannelsAt10V"
            /\ status' = r.status
            /\ cmds' = r.cmds
            /\ io' = r.io
            /\ samples' = <<>>
            /\ UNCHANGED <<dev, args>>

CallFetchScan ==
    /\ dev = "open"
    /\ \E r \in FetchScan(args.offset, args.amplitude, args.duration,
                          args.n_samples, args.channels, Len(args.channels),
                          args.type) :
            /\ call' = "FetchScan"
            /\ status' = r.status
            /\ cmds' = r.cmds
            /\ io' = r.io
            /\ samples' = r.samples
            /\ UNCHANGED <<dev, args>>

Next ==
    \/ CallOpenConnection
    \/ CallOutputSignal
    \/ CallSampleChannelsAt10V
    \/ CallFetchScan

Spec == Init /\ [][Next]_vars

----------------------------------------------------------------------------
(* GenerateSignal as a pure function of its arguments *)

SignalInit ==
    /\ dev = "NULL"
    /\ call = "none"
    /\ args \in SignalRequests
    /\ status = kSuccess
    /\ cmds = <<>>
    /\ samples = Buffer(args.n_samples)
    /\ io = NoIo

CallGenerateSignal ==
    \E r \in GenerateSignal(args.type, args.n_samples, args.n_prefix,
                            args.amplitude, args.offset, Buffer(args.n_samples)) :
        /\ call' = "GenerateSignal"
        /\ status' = r.status
        /\ samples' = r.samples
        /\ io' = [NoIo EXCEPT !.gen = r.status, !.slope_n = r.slope_n,
                               !.oob = r.oob]
        /\ UNCHANGED <<dev, args, cmds>>

SignalNext ==
    \/ CallGenerateSignal

SignalSpec == SignalInit /\ [][SignalNext]_vars

----------------------------------------------------------------------------
(* IntegerSlope as a pure function of its arguments *)

CodeInputs == {0, 1, 2 ^ 15, kMaxAmplitude - 1, kMaxAmplitude}

SlopeRequests ==
    {[start |-> a, stop |-> b, n_samples |-> n] :
       a \in CodeInputs, b \in CodeInputs,
       n \in (0 .. MaxSamples) \cup
             {kPrefix, LIBMCCDAQ_BULK_TRANSFER_SIZE - 1 - kPrefix}}

SlopeInit ==
    /\ dev = "NULL"
    /\ call = "none"
    /\ args \in SlopeRequests
    /\ status = kSuccess
    /\ cmds = <<>>
    /\ samples = Buffer(args.n_samples)
    /\ io = NoIo

CallIntegerSlope ==
    \E slope \in IntegerSlope(args.start, args.stop, args.n_samples) :
        /\ call' = "IntegerSlope"
        /\ status' = kSuccess
        /\ samples' = StoreAt(Buffer(args.n_samples), 0, slope)
        /\ UNCHANGED <<dev, args, cmds, io>>

SlopeNext ==
    \/ CallIntegerSlope

SlopeSpec == SlopeInit /\ [][SlopeNext]_vars

----------------------------------------------------------------------------
(* OutputSignal over the whole range of its uint sample count; the         *)
(* connection has been opened.                                             *)

UintInputs ==
    {<<h, l>> :
       h \in {0, 1, 2 ^ 14, 2 ^ 15 - 1, 2 ^ 15, 2 ^ 15 + 1, Two16 - 1},
       l \in {0, 1, LIBMCCDAQ_BULK_TRANSFER_SIZE \div 2,
              LIBMCCDAQ_BULK_TRANSFER_SIZE \div 2 + 1,
              LIBMCCDAQ_BULK_TRANSFER_SIZE, 2 ^ 15, Two16 - 1}}

SampleRateInputs ==
    {Quotient(1000, 1), Quotient(0, 1), Quotient(-1, 1), Quotient(0, 0),
     Quotient(1, 0)}

OutputRequests ==
    {[n_samples |-> u, rate |-> r] : u \in UintInputs, r \in SampleRateInputs}

OutputInit ==
    /\ dev = "open"
    /\ call = "none"
    /\ args \in OutputRequests
    /\ status = kSuccess
    /\ cmds = <<>>
    /\ samples = <<>>
    /\ io = NoIo

CallOutputSignalUint ==
    /\ dev = "open"
    /\ \E r \in OutputSignalUint(args.n_samples, args.rate) :
            /\ call' = "OutputSignal"
            /\ status' = r.status
            /\ cmds' = r.cmds
            /\ io' = r.io
            /\ UNCHANGED <<dev, args, samples>>

OutputNext ==
    \/ CallOutputSignalUint

OutputSpec == OutputInit /\ [][OutputNext]_vars

----------------------------------------------------------------------------
(* GenerateTriangleSignal on a buffer of `length` samples.                 *)

TriangleVolts ==
    {-kFullScale * VoltRes - 1, -kFullScale * VoltRes, -8 * VoltRes - 1, 0,
     8 * VoltRes, kFullScale * VoltRes, kFullScale * VoltRes + 1}

TriangleRequests ==
    [length : (0 .. MaxSamples) \cup {10}, min : TriangleVolts,
     max : TriangleVolts]

TriangleInit ==
    /\ dev = "NULL"
    /\ call = "none"
    /\ args \in TriangleRequests
    /\ status = kSuccess
    /\ cmds = <<>>
    /\ samples = Buffer(args.length)
    /\ io = NoIo

CallGenerateTriangleSignal ==
    \E amplitudes \in GenerateTriangleSignal(args.length, args.min, args.max) :
        /\ call' = "GenerateTriangleSignal"
        /\ samples' = amplitudes
        /\ UNCHANGED <<dev, args, status, cmds, io>>

TriangleNext ==
    \/ CallGenerateTriangleSignal

TriangleSpec == TriangleInit /\ [][TriangleNext]_vars

----------------------------------------------------------------------------
(* SampleChannels with the caller's gains and the codes the device         *)
(* delivers; the connection has been opened.                               *)

Gains == {BP_10V, "BP_5V"}

DeviceCodes == {0, 2 ^ 15, kMaxAmplitude}

SeqsOf(S, n) == [1 .. n -> S]

SampleRequests ==
    UNION {[channels : {c}, gains : SeqsOf(Gains, Len(c)), n_samples : {n},
            frequency : {Quotient(1000, 1)},
            data : SeqsOf(DeviceCodes, Len(c) * n)] :
             c \in ChannelLists, n \in 0 .. 2}

SampleInit ==
    /\ dev = "open"
    /\ call = "none"
    /\ args \in SampleRequests
    /\ status = kSuccess
    /\ cmds = <<>>
    /\ samples = <<>>
    /\ io = NoIo

CallSampleChannels ==
    /\ dev = "open"
    /\ \E r \in SampleChannels(args.channels, Len(args.channels), args.n_samples,
                               args.frequency, args.gains) :
            /\ call' = "SampleChannels"
            /\ status' = r.status
            /\ cmds' = r.cmds
            /\ io' = r.io
            /\ samples' = IF r.status = Undefined THEN <<>>
                          ELSE Results(Received(args.data, r.io.read_ret))
            /\ UNCHANGED <<dev, args>>

SampleNext ==
    \/ CallSampleChannels

SampleSpec == SampleInit /\ [][SampleNext]_vars

----------------------------------------------------------------------------
(* VoltsToCounts on two voltages of the fine grid.                         *)

VoltInputs ==
    {q \in {c * StepParts + d :
              c \in {0, 1, 2 ^ 15 - 1, 2 ^ 15, kMaxAmplitude - 2,
                     kMaxAmplitude - 1},
              d \in 0 .. 2 * StepParts} : q <= MaxVolts}

VoltRequests ==
    {r \in [v1 : VoltInputs, v2 : VoltInputs] : r.v1 <= r.v2}

VoltInit ==
    /\ dev = "NULL"
    /\ call = "none"
    /\ args \in VoltRequests
    /\ status = kSuccess
    /\ cmds = <<>>
    /\ samples = <<>>
    /\ io = NoIo

CallVoltsToCounts ==
    \E c1 \in VoltsToCountsAt(args.v1), c2 \in VoltsToCountsAt(args.v2) :
        /\ args.v1 = args.v2 => c1 = c2
        /\ call' = "VoltsToCounts"
        /\ status' = kSuccess
        /\ samples' = <<c1, c2>>
        /\ UNCHANGED <<dev, args, cmds, io>>

VoltNext ==
    \/ CallVoltsToCounts

VoltSpec == VoltInit /\ [][VoltNext]_vars

----------------------------------------------------------------------------
(* Properties of the scan operations (specification Spec) *)

Ops(seq) == {seq[i].op : i \in 1 .. Len(seq)}

\* the positions of the commands op in the latest call
Positions(op) == {i \in 1 .. Len(cmds) : cmds[i].op = op}

EmitCalled == call \in {"OutputSignal", "FetchScan"} /\ io.emit # "NotCalled"

\* C1: in FetchScan, when OutputSignal returns a status other than Success,
\* FetchScan returns that status and the call issues no input-engine command.
C1_EmitFailureAborts ==
    (call = "FetchScan" /\ io.emit \notin {"NotCalled", kSuccess})
        => /\ status = io.emit
           /\ Ops(cmds) \cap InputOps = {}

\* a FetchScan whose bulk transfer failed after the output engine was reset
C1_Witness ==
    /\ call = "FetchScan"
    /\ io.emit = kConnectionError
    /\ "BulkTransfer" \in Ops(cmds)

\* C2: a read that returns another byte count than 2 * n_samples * n_channels
\* makes SampleChannels, and FetchScan with it, return ConnectionError (stated
\* for the reads of at least one sample on at least one channel).
C2_ShortReadReported ==
    (/\ call \in {"SampleChannelsAt10V", "FetchScan"}
     /\ "AInScanRead" \in Ops(cmds)
     /\ io.read_len > 0
     /\ io.read_ret # io.read_len)
        => status = kConnectionError

C4_StartIsBounded ==
    \A i \in Positions("AOutScanStart") :
        cmds[i].count = args.n_samples /\ cmds[i].count # 0

\* C5: a call that returns ValueError has issued no device command.
C5_ValueErrorNoCommand ==
    status = kValueError => cmds = <<>>

\* a FetchScan rejected by OutputSignal's check of the sample rate, after the
\* waveform was generated
C5_Witness ==
    /\ call = "FetchScan"
    /\ status = kValueError
    /\ io.gen = kSuccess
    /\ io.emit = kValueError
    /\ args.n_samples > kPrefix

\* C6: in a FetchScan that reaches the Acquire phase the output scan start
\* precedes the input scan start, the two carry the sample count n_samples
\* and the rate n_samples / duration, and no output-engine command follows
\* the output scan start.
C6_MatchedScans ==
    (call = "FetchScan" /\ io.acquire # "NotCalled")
        => /\ Cardinality(Positions("AOutScanStart")) = 1
           /\ \A o \in Positions("AOutScanStart") :
                /\ cmds[o].count = args.n_samples
                /\ cmds[o].rate = Quotient(args.n_samples, args.duration)
                /\ \A k \in o + 1 .. Len(cmds) : cmds[k].op \notin OutputOps
                /\ \A i \in Positions("AInScanStart") :
                     /\ o < i
                     /\ cmds[i].count = cmds[o].count
                     /\ cmds[i].rate = cmds[o].rate
           /\ io.acquire = kSuccess
                => /\ Cardinality(Positions("AInScanStart")) = 1
                   /\ \A i \in Positions("AInScanStart") :
                        \E r \in Positions("AInScanRead") : i < r

\* a FetchScan that ran both scans over an active ramp
C6_Witness ==
    /\ call = "FetchScan"
    /\ status = kSuccess
    /\ args.n_samples > kPrefix + 2
    /\ Len(args.channels) = 2
    /\ io.read_ret = io.read_len
    /\ "AInScanRead" \in Ops(cmds)

\* every start is preceded by a stop and then a clear, with no start between
StartIsReset(start, stop, clear) ==
    \A i \in Positions(start) :
        \E s \in Positions(stop), c \in Positions(clear) :
            /\ s < c
            /\ c < i
            /\ \A k \in s .. i - 1 : cmds[k].op # start

\* C7: every scan start is preceded, within its call, by a stop and then a
\* FIFO clear of the same engine, with no other start of that engine between
\* the stop and it.
C7_StartAfterReset ==
    /\ StartIsReset("AOutScanStart", "AOutScanStop", "AOutScanClearFIFO")
    /\ StartIsReset("AInScanStart", "AInScanStop", "AInScanClearFIFO")

\* a call that started both engines
C7_Witness ==
    /\ Positions("AOutScanStart") # {}
    /\ Positions("AInScanStart") # {}

----------------------------------------------------------------------------
(* Properties of GenerateSignal (specification SignalSpec) *)

Returned(s) == call = "GenerateSignal" /\ status = s

RestCode == VoltsToCounts(2 * args.offset)

HighCode == VoltsToCounts(2 * args.offset + args.amplitude)

LowCode == VoltsToCounts(2 * args.offset - args.amplitude)

\* C8: after a GenerateSignal that returned Success the last sample and the
\* first n_prefix samples are VoltsToCounts(offset).
C8_SettlingSamples ==
    Returned(kSuccess)
        => /\ Len(samples) = args.n_samples
           /\ args.n_samples > 0 => samples[args.n_samples] = RestCode
           /\ \A i \in 1 .. args.n_prefix : samples[i] = RestCode

\* a signal with a prefix, an active ramp above the rest level and a last sample
C8_Witness ==
    /\ Returned(kSuccess)
    /\ args.n_prefix >= 2
    /\ args.n_samples >= args.n_prefix + 3
    /\ samples[args.n_prefix + 1] # RestCode
    /\ samples[args.n_samples] = RestCode

\* the arguments the documented validation rejects
C9_Rejected ==
    \/ args.n_samples > LIBMCCDAQ_BULK_TRANSFER_SIZE
    \/ args.n_prefix > args.n_samples
    \/ args.amplitude < 0
    \/ args.amplitude > 2 * kFullScale * VoltRes
    \/ 2 * args.offset - args.amplitude < -2 * kFullScale * VoltRes
    \/ 2 * args.offset + args.amplitude > 2 * kFullScale * VoltRes

\* C9: GenerateSignal returns ValueError exactly for the rejected arguments,
\* and otherwise NotImplementedError for Dip and Success for Ascent, Descent
\* (stated for the buffers of at least one sample).
C9_ValidationVerdict ==
    (call = "GenerateSignal" /\ args.n_samples > 0)
        => status = IF C9_Rejected THEN kValueError
                    ELSE IF args.type = kDip THEN kNotImplementedError
                    ELSE kSuccess

\* C10: after a GenerateSignal that returned Success the samples at (0-based)
\* n_prefix .. n_samples-2 run from the high code to the low code without
\* increasing for Descent, and from the low code to the high code without
\* decreasing for Ascent.
C10_SlopeShape ==
    (Returned(kSuccess) /\ args.n_prefix + 1 <= args.n_samples - 1)
        => LET first == args.n_prefix + 1
               last == args.n_samples - 1
           IN  IF args.type = kDescent
               THEN /\ samples[first] = HighCode
                    /\ samples[last] = LowCode
                    /\ \A i \in first .. last - 1 : samples[i] >= samples[i + 1]
               ELSE /\ samples[first] = LowCode
                    /\ samples[last] = HighCode
                    /\ \A i \in first .. last - 1 : samples[i] <= samples[i + 1]

----------------------------------------------------------------------------
(* Properties of IntegerSlope (specification SlopeSpec) *)

\* C11: for n >= 2, IntegerSlope stores start at out[0] and stop at out[n-1],
\* and the stored sequence does not decrease when stop >= start and does not
\* increase otherwise.
C11_SlopeEndpointsMonotone ==
    (call = "IntegerSlope" /\ args.n_samples >= 2)
        => /\ Len(samples) = args.n_samples
           /\ samples[1] = args.start
           /\ samples[args.n_samples] = args.stop
           /\ \A i \in 1 .. args.n_samples - 1 :
                IF args.stop >= args.start
                THEN samples[i] <= samples[i + 1]
                ELSE samples[i] >= samples[i + 1]

\* a falling slope of several samples with a value strictly between its ends
C11_Witness ==
    /\ call = "IntegerSlope"
    /\ args.n_samples >= 4
    /\ args.start > args.stop
    /\ samples[2] < args.start
    /\ samples[2] > args.stop
    /\ samples[args.n_samples] = args.stop

----------------------------------------------------------------------------
(* Properties of OutputSignal's validation (specification OutputSpec) *)

\* 2 * n_samples, as a mathematical integer, exceeds the transfer size
C12_TooManyBytes ==
    args.n_samples[1] > 0
        \/ 2 * args.n_samples[2] > LIBMCCDAQ_BULK_TRANSFER_SIZE

\* C12: OutputSignal returns ValueError for every uint n_samples whose byte
\* size 2 * n_samples exceeds LIBMCCDAQ_BULK_TRANSFER_SIZE, also where the
\* product wraps modulo 2^32, and for every sample_rate that is not above 0.
C12_OversizeRejected ==
    (call = "OutputSignal" /\ (C12_TooManyBytes \/ ~RatePositive(args.rate)))
        => status = kValueError

----------------------------------------------------------------------------
(* Properties of the voltage codec (specification VoltSpec) *)

\* -10 V gives code 0, +10 V gives code 65535, and every code is in range
C13_EndsAndRange ==
    /\ args.v1 = MinVolts => samples[1] = 0
    /\ args.v2 = MaxVolts => samples[2] = kMaxAmplitude
    /\ \A i \in 1 .. 2 : samples[i] \in 0 .. kMaxAmplitude

----------------------------------------------------------------------------
(* Properties of SampleChannels (specification SampleSpec) *)

\* the codes SampleChannels received, in device order
C15_Codes == Received(args.data, io.read_ret)

\* the reading x is the number c
C15_IsNumber(x, c) == x[1] % x[2] = 0 /\ x[1] \div x[2] = c

----------------------------------------------------------------------------
(* Properties of GenerateTriangleSignal (specification TriangleSpec) *)

\* the range the triangle is generated for
C16_Min == IF TriangleInvalid(args.min, args.max) THEN -kFullScale * VoltRes
           ELSE args.min
C16_Max == IF TriangleInvalid(args.min, args.max) THEN kFullScale * VoltRes
           ELSE args.max

\* the full range, for which length 10 gives a strict V
C16_FullRange == C16_Min = -kFullScale * VoltRes /\ C16_Max = kFullScale * VoltRes

\* the (1-based) middle positions of the sequence
C16_Middle == {(args.length - 1) \div 2 + 1, args.length \div 2 + 1}

\* the sequence does not rise up to the middle and does not fall after it,
\* strictly so for length 10 over the full range; no sample is above the
\* first one; the least sample is at a middle position; an invalid range
\* gives a result of the range -10 .. 10
C16_VShape ==
    /\ Len(samples) = args.length
    /\ \A i \in 1 .. args.length - 1 :
         /\ 2 * i <= args.length - 1 => samples[i] >= samples[i + 1]
         /\ 2 * (i - 1) >= args.length - 1 => samples[i] <= samples[i + 1]
         /\ (args.length = 10 /\ C16_FullRange /\ 2 * i <= args.length - 1)
               => samples[i] > samples[i + 1]
         /\ (args.length = 10 /\ C16_FullRange /\ 2 * (i - 1) >= args.length - 1)
               => samples[i] < samples[i + 1]
    /\ \A i \in 1 .. args.length : samples[i] <= samples[1]
    /\ \E m \in C16_Middle : \A i \in 1 .. args.length : samples[m] <= samples[i]
    /\ TriangleInvalid(args.min, args.max)
         => samples \in GenerateTriangleSignal(args.length, -kFullScale * VoltRes,
                                               kFullScale * VoltRes)

\* kMaxAmplitude * (max + 10) / 20 is exactly midway between two codes
C16_MaxMidway ==
    (kMaxAmplitude * (C16_Max + kFullScale * VoltRes))
        % (2 * kFullScale * VoltRes) = kFullScale * VoltRes

----------------------------------------------------------------------------
(* Transfer sizes of FetchScan (specification Spec) *)

\* the request exceeds a transfer size: more than LIBMCCDAQ_BULK_TRANSFER_SIZE
\* samples, or a read of n_samples * n_chan * 2 bytes that is more than the
\* 5120 bytes (LIBMCCDAQ_BULK_TRANSFER_SIZE 2-byte integers) of a transfer
C17_TooLarge ==
    \/ args.n_samples > LIBMCCDAQ_BULK_TRANSFER_SIZE
    \/ args.n_samples * Len(args.channels) * 2 > 2 * LIBMCCDAQ_BULK_TRANSFER_SIZE

\* C17: a FetchScan request that reaches device I/O has n_samples and its
\* read size n_samples * n_chan * 2 bytes within the transfer size; a request
\* beyond either is rejected before an input scan is started.
C17_TransferLimits ==
    (call = "FetchScan" /\ C17_TooLarge)
        => /\ cmds = <<>>
           /\ Positions("AInScanStart") = {}
           /\ status # kSuccess

----------------------------------------------------------------------------
(* The channel list of SampleChannels (specification SampleSpec) *)

\* C18: SampleChannels issues stop, FIFO clear, config, scan start, read in
\* this order; the list pushed by the config has n_channels entries in the
\* caller's order, each single-ended with the caller's gain, entry i flagged
\* LAST_CHANNEL exactly when i = n_channels - 1; and the list has at least
\* one entry.
C18_ChannelList ==
    call = "SampleChannels"
        => /\ [i \in 1 .. Len(cmds) |-> cmds[i].op]
                = <<"AInScanStop", "AInScanClearFIFO", "AInConfig",
                    "AInScanStart", "AInScanRead">>
           /\ LET list == cmds[3].list
              IN  /\ Len(list) = Len(args.channels)
                  /\ \A i \in 1 .. Len(list) :
                       /\ list[i].channel = args.channels[i]
                       /\ "SINGLE_ENDED" \in list[i].mode
                       /\ list[i].range = args.gains[i]
                       /\ "LAST_CHANNEL" \in list[i].mode <=> i = Len(list)
                  /\ Len(list) >= 1

----------------------------------------------------------------------------
(* The slope inside GenerateSignal (specification SignalSpec) *)

\* the arguments pass GenerateSignal's validation
C19_Validated ==
    ~GenerateSignalInvalid(args.n_samples, args.n_prefix, args.amplitude,
                           args.offset)

\* C19: whenever the validation of GenerateSignal passes for Ascent or
\* Descent, IntegerSlope is called with n_samples - n_prefix - 1 >= 2
\* samples: never with 1, with 0, or with a count that wrapped around.
C19_SlopeAtLeastTwo ==
    (call = "GenerateSignal" /\ C19_Validated /\ args.type \in {kAscent, kDescent})
        => /\ io.slope_n # NoSlope
           /\ io.slope_n[1] = 0
           /\ io.slope_n[2] >= 2

\* C20: a GenerateSignal call whose arguments pass validation writes only
\* samples[0 .. n_samples-1] of the caller's buffer.
C20_WritesInBounds ==
    (call = "GenerateSignal" /\ C19_Validated) => ~io.oob

----------------------------------------------------------------------------
(* The buffer of a refused GenerateSignal (specification SignalSpec) *)

\* C21: when GenerateSignal returns ValueError or NotImplementedError, the
\* caller's buffer is as it was before the call: no sample has been written.
C21_RefusedLeavesBuffer ==
    (call = "GenerateSignal" /\ status \in {kValueError, kNotImplementedError})
        => samples = Buffer(args.n_samples)

=============================================================================
